---- MODULE Spec2Model ----
(***************************************************************************)
(* A model of parrisma/trace: the Trace handle (rltrace/Trace.py), the     *)
(* LogLevel enumeration (rltrace/LogLevel.py), the document-store sink     *)
(* (rltrace/elastic/ElasticHandler.py, ElasticFormatter.py) and the store  *)
(* write of elastic/ESUtil.py, over the process-wide logger registry of    *)
(* the Python logging runtime.                                             *)
(***************************************************************************)
EXTENDS Integers, Sequences, FiniteSets, TLC

(***************************************************************************)
(* Bounds of the model.                                                    *)
(***************************************************************************)
MaxTraces == 2      \* Trace handles constructed in one run
MaxRefs == 2        \* session ids drawn from UniqueRef in one run
MaxDocs == 1        \* documents the store index holds in one run
NThreads == 2       \* threads of the concurrent runs
MaxForks == 1       \* forks of the process in one run
MaxLen == 2         \* characters of a message that is formatted
MaxHits == 4        \* documents that match a search
MaxPage == 2        \* documents the store delivers on one page

(***************************************************************************)
(* Program constants.                                                      *)
(***************************************************************************)
\* the native severities of the logging runtime
NOTSET == 0
DEBUG == 10
INFO == 20
WARN == 30
ERROR == 40
CRITICAL == 50
NativeLevels == {DEBUG, INFO, WARN, ERROR, CRITICAL}

\* LogLevel(IntEnum)
debug == 0
info == 1
warn == 2
error == 3
critical == 4
LogLevels == {debug, info, warn, error, critical}

\* absent optional arguments and fields (Python None)
None == "None"
NoLevel == -1
NoHandler == 0
NoPort == 0
NoFactory == [hostname |-> None, port_id |-> NoPort]
NoConnection == [url |-> <<>>, id |-> 0, pid |-> 0]

_TRACE_UNIQUE_NAME == "Trace-73702c6afbb74892a5393278bd088bb4"
trace_console_handler_unique_name == "Trace-73702c6afbb74892a5393278bd088bb4-ConsoleHandler"
trace_file_handler_unique_name == "Trace-73702c6afbb74892a5393278bd088bb4-FileHandler"
_ELASTIC_HANDLER_UNIQUE_NAME == "Trace-73702c6afbb74892a5393278bd088bb4-ElasticDBHandler"

\* the values uuid4 hands out, in the order they are drawn
UniqueRefs == <<"u1", "u2", "u3", "u4", "u5", "u6">>
UniqueRef(n) == UniqueRefs[n]

(***************************************************************************)
(* Inputs the operations are called with.                                  *)
(***************************************************************************)
InSessionUuids == {None, "S1"}
InLogDirs == {None, ".", "nodir"}
InSinkNames == {_ELASTIC_HANDLER_UNIQUE_NAME, "Other"}
InMsgs == {<<"m">>, <<"\"", "\\">>}
InIndexName == "trace_index"
InLogLevels == {debug, error}
InLogArgLevels == {NoLevel, DEBUG, ERROR}
InSetLevels == {ERROR}
\* arguments of enable_handler that are no logging.Handler
InInvalidHandlers == {None, "notHandler"}
InHostname == "localhost"
InPortIds == {NoPort, 9200}
InIndexNames == {InIndexName, "other_index"}
\* what the look-up of the node port answers: a port, or none for its failure
InNodePorts == {NoPort, 30000}
\* whether the store answers the index requests or fails them
InStore == {"ok", "raise"}
\* what the store answers to a single-document write
Acks == {"created", "noop", "missing", "raise"}
Threads == 1..NThreads

VARIABLES
    loggers,    \* logging.Logger.manager.loggerDict: the loggers made so far
    traces,     \* the Trace handles constructed so far, in order
    stdout,     \* sys.stdout
    stderr,     \* sys.stderr
    nextObj,    \* identity of the next handler object attached
    nextRef,    \* index of the next value uuid4 hands out
    docs,       \* the documents held by the store
    call,       \* the log or enable_handler call made last, and how it ended
    emitted,    \* the handlers that call had emit the record, in order
    pc,         \* per thread: the statement it is about to execute
    frame,      \* per thread: its handle and what its name check returned
    es,         \* ESUtil._es: the connections made, by connection string
    sinks,      \* per ElasticHandler made with a factory: its _es connection
    indices,    \* the names of the indices the store holds
    pid,        \* the process running: 1 at the start, the next after a fork
    fn          \* the function applied last, with its argument and its result

vars == <<loggers, traces, stdout, stderr, nextObj, nextRef, docs, call, emitted, pc, frame,
          es, sinks, indices, pid, fn>>

(***************************************************************************)
(* The logging runtime, as Trace.py uses it.                               *)
(***************************************************************************)
\* the position of the logger registered under name, 0 when there is none
FindLogger(ls, name) ==
    IF \E i \in DOMAIN ls : ls[i].name = name
    THEN CHOOSE i \in DOMAIN ls : ls[i].name = name
    ELSE 0

\* a getLogger that makes a new logger on every call
getLoggerPerCall(ls, name) ==
    [loggers |-> Append(ls, [name |-> name, level |-> NOTSET,
                             propagate |-> TRUE, handlers |-> <<>>]),
     id |-> Len(ls) + 1]

\* logging.getLogger(name): the logger registered under name, made on first use
getLogger(ls, name) ==
    IF FindLogger(ls, name) # 0
    THEN [loggers |-> ls, id |-> FindLogger(ls, name)]
    ELSE [loggers |-> Append(ls, [name |-> name, level |-> NOTSET,
                                  propagate |-> TRUE, handlers |-> <<>>]),
          id |-> Len(ls) + 1]

\* Logger.addHandler: appends the object unless that very object is attached
addHandler(hs, h) ==
    IF \E i \in DOMAIN hs : hs[i].id = h.id THEN hs ELSE Append(hs, h)

\* a name lookup that finds nothing
FirstByNameNotFound(hs, name) == NoHandler

\* the loop "for handler in handlers: if handler.name == name: ...; break":
\* the identity of the first handler of that name, NoHandler when none has it
FirstByName(hs, name) ==
    IF \E i \in DOMAIN hs : hs[i].name = name
    THEN hs[CHOOSE i \in DOMAIN hs :
                /\ hs[i].name = name
                /\ \A j \in 1..(i - 1) : hs[j].name # name].id
    ELSE NoHandler

\* LogLevel.set: the native level a LogLevel sets on the logger
LogLevelSet(l) ==
    CASE l = debug -> DEBUG
      [] l = info -> INFO
      [] l = warn -> WARN
      [] l = error -> ERROR
      [] l = critical -> CRITICAL
      [] OTHER -> INFO

\* os.path.isdir on the directories the model constructs with
isdir(d) == d = "."

(***************************************************************************)
(* The part of the state a Trace construction works on, as one value, so   *)
(* that the statements of __init__ and _bootstrap compose.                 *)
(***************************************************************************)
World == [loggers |-> loggers, traces |-> traces, stdout |-> stdout,
          stderr |-> stderr, nextObj |-> nextObj]

SetWorld(w) ==
    /\ loggers' = w.loggers
    /\ traces' = w.traces
    /\ stdout' = w.stdout
    /\ stderr' = w.stderr
    /\ nextObj' = w.nextObj

\* the logger a handle holds in _logger
LoggerOf(w, t) == w.loggers[w.traces[t].logger]

\* Trace.__init__ up to the call of _bootstrap: the fields of the new handle
TraceInit(w, log_level, log_dir_name, session_uuid) ==
    [w EXCEPT !.traces = Append(@, [session_uuid |-> session_uuid,
                                    log_level |-> log_level,
                                    logger |-> 0,
                                    log_dir_name |-> log_dir_name,
                                    console_handler |-> NoHandler,
                                    file_handler |-> NoHandler])]

\* a _bootstrap that sets the level of the handlers attached as well
BootstrapLoggerAndHandlers(w, t) ==
    LET g == getLogger(w.loggers, _TRACE_UNIQUE_NAME)
        level == LogLevelSet(w.traces[t].log_level)
    IN [w EXCEPT !.loggers = [g.loggers EXCEPT
                                ![g.id].level = level,
                                ![g.id].propagate = FALSE,
                                ![g.id].handlers = [i \in DOMAIN @ |->
                                                       [@[i] EXCEPT !.level = level]]],
                 !.traces[t].logger = g.id]

\* a _bootstrap that sets the level of a logger it has just made only
BootstrapLoggerKeepLevel(w, t) ==
    LET g == getLogger(w.loggers, _TRACE_UNIQUE_NAME) IN
    [w EXCEPT !.loggers = [g.loggers EXCEPT
                             ![g.id].level = IF FindLogger(w.loggers, _TRACE_UNIQUE_NAME) = 0
                                             THEN LogLevelSet(w.traces[t].log_level)
                                             ELSE @,
                             ![g.id].propagate = FALSE],
              !.traces[t].logger = g.id]

\* _bootstrap, first three statements: look the logger up, set its level,
\* stop propagation to the parent
BootstrapLogger(w, t) ==
    LET g == getLogger(w.loggers, _TRACE_UNIQUE_NAME) IN
    [w EXCEPT !.loggers = [g.loggers EXCEPT
                             ![g.id].level = LogLevelSet(w.traces[t].log_level),
                             ![g.id].propagate = FALSE],
              !.traces[t].logger = g.id]

\* enable_console_handler, the loop: remember an attached console handler
ConsoleCheck(w, t) ==
    LET h == FirstByName(LoggerOf(w, t).handlers, trace_console_handler_unique_name) IN
    IF h # NoHandler THEN [w EXCEPT !.traces[t].console_handler = h] ELSE w

\* enable_console_handler, the rest: make and attach one when none was found
ConsoleAttach(w, t) ==
    IF w.traces[t].console_handler # NoHandler THEN w
    ELSE LET h == [id |-> w.nextObj,
                   name |-> trace_console_handler_unique_name,
                   level |-> LoggerOf(w, t).level,
                   kind |-> "console",
                   target |-> IF w.stdout.redirect THEN "StreamToLogger" ELSE "stdout"]
         IN [w EXCEPT !.loggers[w.traces[t].logger].handlers = addHandler(@, h),
                      !.traces[t].console_handler = h.id,
                      !.nextObj = @ + 1]

enable_console_handler(w, t) == ConsoleAttach(ConsoleCheck(w, t), t)

\* enable_file_handler, the loop: remember an attached file handler
FileCheck(w, t) ==
    LET h == FirstByName(LoggerOf(w, t).handlers, trace_file_handler_unique_name) IN
    IF h # NoHandler THEN [w EXCEPT !.traces[t].file_handler = h] ELSE w

\* an enable_file_handler that attaches a file handler whenever the handle
\* has a log directory, whether or not one is attached
FileAttachUnchecked(w, t) ==
    IF w.traces[t].log_dir_name = None THEN w
    ELSE LET h == [id |-> w.nextObj,
                   name |-> trace_file_handler_unique_name,
                   level |-> LoggerOf(w, t).level,
                   kind |-> "file",
                   target |-> w.traces[t].log_dir_name]
         IN [w EXCEPT !.loggers[w.traces[t].logger].handlers = Append(@, h),
                      !.traces[t].file_handler = h.id,
                      !.nextObj = @ + 1]

\* enable_file_handler, the rest: with a log directory and no file handler
\* found, make and attach one
FileAttach(w, t) ==
    IF w.traces[t].log_dir_name = None \/ w.traces[t].file_handler # NoHandler THEN w
    ELSE LET h == [id |-> w.nextObj,
                   name |-> trace_file_handler_unique_name,
                   level |-> LoggerOf(w, t).level,
                   kind |-> "file",
                   target |-> w.traces[t].log_dir_name]
         IN [w EXCEPT !.loggers[w.traces[t].logger].handlers = addHandler(@, h),
                      !.traces[t].file_handler = h.id,
                      !.nextObj = @ + 1]

enable_file_handler(w, t) == FileAttach(FileCheck(w, t), t)

\* a redirect that does not look at what sys.stdout and sys.stderr are
RedirectAlways(w, t) ==
    [w EXCEPT !.stdout = [redirect |-> TRUE, logger |-> w.traces[t].logger,
                          level |-> INFO, by |-> t],
              !.stderr = [redirect |-> TRUE, logger |-> w.traces[t].logger,
                          level |-> ERROR, by |-> t]]

\* _bootstrap, last statements: sys.stdout and sys.stderr become a
\* StreamToLogger unless they are one already
Redirect(w, t) ==
    [w EXCEPT !.stdout = IF @.redirect THEN @
                         ELSE [redirect |-> TRUE, logger |-> w.traces[t].logger,
                               level |-> INFO, by |-> t],
              !.stderr = IF @.redirect THEN @
                         ELSE [redirect |-> TRUE, logger |-> w.traces[t].logger,
                               level |-> ERROR, by |-> t]]

\* Trace._bootstrap
_bootstrap(w, t) ==
    Redirect(enable_file_handler(enable_console_handler(BootstrapLogger(w, t), t), t), t)

(***************************************************************************)
(* ElasticFormatter and the store write.  A text is a sequence of          *)
(* characters; a name that is used whole (a logger name, a level name)     *)
(* stands as one element of it.                                            *)
(***************************************************************************)
\* ElasticFormatter.level_map, str(level_no) for a number it does not hold
\* (the numbers the model logs at are all held, or print as themselves)
_translate_level_no(level_no) ==
    CASE level_no = 50 -> "CRITICAL"
      [] level_no = 40 -> "ERROR"
      [] level_no = 30 -> "WARNING"
      [] level_no = 20 -> "INFO"
      [] level_no = 10 -> "DEBUG"
      [] level_no = 0 -> "NOTSET"
      [] OTHER -> ToString(level_no)

\* the escapes json.dumps writes for one character of a string
JsonEscapeChar(c) ==
    CASE c = "\"" -> <<"\\", "\"">>
      [] c = "\\" -> <<"\\", "\\">>
      [] c = "\n" -> <<"\\", "n">>
      [] OTHER -> <<c>>

RECURSIVE JsonEscape(_)
JsonEscape(s) ==
    IF s = <<>> THEN <<>> ELSE JsonEscapeChar(Head(s)) \o JsonEscape(Tail(s))

\* json.dumps of a string: the escaped text between double quotes
json_dumps(s) == <<"\"">> \o JsonEscape(s) \o <<"\"">>

\* the content of a JSON string token read back by json.loads: ok is FALSE
\* when the token holds a bare quote or a dangling or unknown escape
RECURSIVE JsonUnescape(_)
JsonUnescape(s) ==
    IF s = <<>> THEN [ok |-> TRUE, text |-> <<>>]
    ELSE IF Head(s) = "\"" THEN [ok |-> FALSE, text |-> <<>>]
    ELSE IF Head(s) = "\\"
         THEN IF Len(s) < 2 \/ s[2] \notin {"\"", "\\", "n"}
              THEN [ok |-> FALSE, text |-> <<>>]
              ELSE LET rest == JsonUnescape(SubSeq(s, 3, Len(s))) IN
                   [ok |-> rest.ok,
                    text |-> <<(IF s[2] = "n" THEN "\n" ELSE s[2])>> \o rest.text]
         ELSE LET rest == JsonUnescape(Tail(s)) IN
              [ok |-> rest.ok, text |-> <<Head(s)>> \o rest.text]

\* ElasticFormatter.format: the four values placed between the quotes of the
\* template {"session_uuid":"{}","level":"{}","timestamp":"{}","message":"{}"}
\* (the timestamp, which no operation of the model reads, is left out).
\* elastic/ElasticFormatter.py, the module ElasticHandler.py imports the class
\* from, has the same format as rltrace/elastic/ElasticFormatter.py.
ElasticFormat(record) ==
    LET sess_n == record.name
        type_n == _translate_level_no(record.levelno)
        dumped == json_dumps(record.msg)
        message == SubSeq(dumped, 2, Len(dumped) - 1)
    IN [session_uuid |-> <<sess_n>>, level |-> <<type_n>>, message |-> message]

\* json.loads of the formatted text, in ESUtil.write_doc_to_index
JsonLoads(json_msg) ==
    LET s == JsonUnescape(json_msg.session_uuid)
        l == JsonUnescape(json_msg.level)
        m == JsonUnescape(json_msg.message)
    IN [ok |-> s.ok /\ l.ok /\ m.ok,
        doc |-> [session_uuid |-> s.text, level |-> l.text, message |-> m.text]]

\* a write_doc_to_index that takes every answer of the store for a success
write_doc_to_indexAnyAnswer(idx_name, json_msg, ack) ==
    LET parsed == JsonLoads(json_msg) IN
    IF ~parsed.ok THEN [raised |-> TRUE, written |-> <<>>]
    ELSE IF ack = "raise" THEN [raised |-> TRUE, written |-> <<>>]
    ELSE [raised |-> FALSE,
          written |-> IF ack = "created" THEN <<[index |-> idx_name] @@ parsed.doc>>
                      ELSE <<>>]

\* ESUtil.write_doc_to_index: parse the text, index the document, raise
\* unless the store acknowledges with result 'created'
write_doc_to_index(idx_name, json_msg, ack) ==
    LET parsed == JsonLoads(json_msg) IN
    IF ~parsed.ok THEN [raised |-> TRUE, written |-> <<>>]
    ELSE IF ack = "raise" THEN [raised |-> TRUE, written |-> <<>>]
    ELSE IF ack # "created" THEN [raised |-> TRUE, written |-> <<>>]
    ELSE [raised |-> FALSE,
          written |-> <<[index |-> idx_name] @@ parsed.doc>>]

\* ElasticHandler.emit: format the record and write it to the handler's index;
\* any failure of the write is raised as RuntimeError
ElasticEmit(h, record, ack) ==
    write_doc_to_index(h.target, ElasticFormat(record), ack)

\* a callHandlers that keeps the failure of an emit to itself, as the handlers
\* of the logging runtime do with handleError
RECURSIVE callHandlersSwallowing(_, _, _, _)
callHandlersSwallowing(hs, i, record, ack) ==
    IF i > Len(hs) THEN [emitted |-> <<>>, raised |-> FALSE, written |-> <<>>]
    ELSE IF record.levelno < hs[i].level
         THEN callHandlersSwallowing(hs, i + 1, record, ack)
    ELSE LET r == IF hs[i].kind = "store"
                  THEN ElasticEmit(hs[i], record, ack)
                  ELSE [raised |-> FALSE, written |-> <<>>]
             rest == callHandlersSwallowing(hs, i + 1, record, ack)
         IN [emitted |-> <<hs[i].id>> \o rest.emitted,
             raised |-> FALSE,
             written |-> r.written \o rest.written]

\* a callHandlers that starts with the handler attached last
RECURSIVE callHandlersNewestFirst(_, _, _, _)
callHandlersNewestFirst(hs, i, record, ack) ==
    IF i > Len(hs) THEN [emitted |-> <<>>, raised |-> FALSE, written |-> <<>>]
    ELSE LET h == hs[Len(hs) + 1 - i] IN
         IF record.levelno < h.level
         THEN callHandlersNewestFirst(hs, i + 1, record, ack)
         ELSE LET r == IF h.kind = "store"
                       THEN ElasticEmit(h, record, ack)
                       ELSE [raised |-> FALSE, written |-> <<>>]
                  rest == callHandlersNewestFirst(hs, i + 1, record, ack)
              IN IF r.raised
                 THEN [emitted |-> <<h.id>>, raised |-> TRUE, written |-> r.written]
                 ELSE [emitted |-> <<h.id>> \o rest.emitted,
                       raised |-> rest.raised,
                       written |-> r.written \o rest.written]

\* a callHandlers that goes on to the next handler after an emit has raised
RECURSIVE callHandlersPastFailure(_, _, _, _)
callHandlersPastFailure(hs, i, record, ack) ==
    IF i > Len(hs) THEN [emitted |-> <<>>, raised |-> FALSE, written |-> <<>>]
    ELSE IF record.levelno < hs[i].level
         THEN callHandlersPastFailure(hs, i + 1, record, ack)
    ELSE LET r == IF hs[i].kind = "store"
                  THEN ElasticEmit(hs[i], record, ack)
                  ELSE [raised |-> FALSE, written |-> <<>>]
             rest == callHandlersPastFailure(hs, i + 1, record, ack)
         IN [emitted |-> <<hs[i].id>> \o rest.emitted,
             raised |-> r.raised \/ rest.raised,
             written |-> r.written \o rest.written]

\* Logger.callHandlers from handler i on: every handler whose level admits the
\* record emits it, in the order of attachment; an emit that raises ends it
RECURSIVE callHandlers(_, _, _, _)
callHandlers(hs, i, record, ack) ==
    IF i > Len(hs) THEN [emitted |-> <<>>, raised |-> FALSE, written |-> <<>>]
    ELSE IF record.levelno < hs[i].level THEN callHandlers(hs, i + 1, record, ack)
    ELSE LET r == IF hs[i].kind = "store"
                  THEN ElasticEmit(hs[i], record, ack)
                  ELSE [raised |-> FALSE, written |-> <<>>]
             rest == callHandlers(hs, i + 1, record, ack)
         IN IF r.raised
            THEN [emitted |-> <<hs[i].id>>, raised |-> TRUE, written |-> r.written]
            ELSE [emitted |-> <<hs[i].id>> \o rest.emitted,
                  raised |-> rest.raised,
                  written |-> r.written \o rest.written]

\* Logger.isEnabledFor: the level reaches the logger's own level
isEnabledFor(lgr, level) == level > 0 /\ level >= lgr.level

\* Logger.log as Trace.log calls it: nothing when the level is not enabled
LoggerLog(lgr, record, ack) ==
    IF isEnabledFor(lgr, record.levelno)
    THEN callHandlers(lgr.handlers, 1, record, ack)
    ELSE [emitted |-> <<>>, raised |-> FALSE, written |-> <<>>]

\* the text Trace.log passes as the record's msg: f'%s - {str(msg)}'
LogFormat(msg) == <<"%", "s", " ", "-", " ">> \o msg

\* the level Trace.log logs at
LogLevelOf(tr, level) == IF level = NoLevel THEN tr.log_level ELSE level

\* the LogRecord Trace.log has the logger make
LogRecord(lgr, tr, msg, level) ==
    [name |-> lgr.name,
     levelno |-> LogLevelOf(tr, level),
     msg |-> LogFormat(msg),
     args |-> <<tr.session_uuid>>,
     session_uuid |-> tr.session_uuid]

\* a contains_handler that goes by the number of handlers attached
contains_handlerByCount(hs, handler_name) == Len(hs) >= 3

\* Trace.get_handler_by_name: the loop variable when the loop ends, which is
\* the first handler of that name, else the last handler, else None
get_handler_by_name(hs, handler_name) ==
    IF \E i \in DOMAIN hs : hs[i].name = handler_name
    THEN hs[CHOOSE i \in DOMAIN hs :
                /\ hs[i].name = handler_name
                /\ \A j \in 1..(i - 1) : hs[j].name # handler_name]
    ELSE IF hs = <<>> THEN None ELSE hs[Len(hs)]

\* Trace.contains_handler
contains_handler(hs, handler_name) == \E i \in DOMAIN hs : handler_name = hs[i].name

\* Trace.enable_handler past its argument checks: attach the handler at the
\* logger's level unless the name check found a handler of its name
EnableAttach(w, t, handler, contained) ==
    IF contained THEN w
    ELSE LET h == [handler EXCEPT !.level = LoggerOf(w, t).level] IN
         [w EXCEPT !.loggers[w.traces[t].logger].handlers = addHandler(@, h),
                   !.nextObj = IF h.id = @ THEN @ + 1 ELSE @]

(***************************************************************************)
(* The operations of a Trace handle, each as one step.                     *)
(***************************************************************************)
\* the last call, when it was a log or an enable_handler with a handler:
\* no call of either kind since the last operation of another kind
NoCall == [op |-> "none", trace |-> 0, level |-> NoLevel, msg |-> <<>>,
           raised |-> FALSE, error |-> "", name |-> "", ack |-> "",
           at |-> "", port_id |-> NoPort, index_name |-> None, log_dir_name |-> None,
           result |-> NoHandler]

\* no function applied yet
NoFn == [op |-> "none"]

Init ==
    /\ loggers = <<>>
    /\ traces = <<>>
    /\ stdout = [redirect |-> FALSE, logger |-> 0, level |-> NOTSET, by |-> 0]
    /\ stderr = [redirect |-> FALSE, logger |-> 0, level |-> NOTSET, by |-> 0]
    /\ nextObj = 1
    /\ nextRef = 1
    /\ docs = <<>>
    /\ call = NoCall
    /\ emitted = <<>>
    /\ pc = [th \in Threads |-> "start"]
    /\ frame = [th \in Threads |-> [trace |-> 0, contained |-> FALSE]]
    /\ es = {}
    /\ sinks = <<>>
    /\ indices = {}
    /\ pid = 1
    /\ fn = NoFn

\* a Trace(...) that runs _bootstrap before it looks at the directory
ConstructBootstrapFirst(log_level, log_dir_name, session_uuid) ==
    /\ Len(traces) < MaxTraces
    /\ session_uuid = None => nextRef <= MaxRefs
    /\ LET sid == IF session_uuid = None THEN UniqueRef(nextRef) ELSE session_uuid
           t == Len(traces) + 1
           failed == log_dir_name # None /\ ~isdir(log_dir_name)
           w == _bootstrap(TraceInit(World, log_level,
                                     IF failed THEN None ELSE log_dir_name, sid), t)
       IN /\ SetWorld(IF failed THEN [w EXCEPT !.traces = traces] ELSE w)
          /\ call' = IF failed
                     THEN [NoCall EXCEPT !.op = "Trace", !.raised = TRUE,
                                         !.error = "ValueError"]
                     ELSE NoCall
    /\ nextRef' = IF session_uuid = None THEN nextRef + 1 ELSE nextRef
    /\ emitted' = <<>>
    /\ UNCHANGED <<fn, docs, pc, frame, es, sinks, indices, pid>>

\* Trace(log_level, log_dir_name, session_uuid=...): the call is remembered
\* when it raised
Construct(log_level, log_dir_name, session_uuid) ==
    /\ Len(traces) < MaxTraces
    /\ session_uuid = None => nextRef <= MaxRefs
    /\ IF log_dir_name # None /\ ~isdir(log_dir_name)
       THEN /\ nextRef' = IF session_uuid = None THEN nextRef + 1 ELSE nextRef
            /\ call' = [NoCall EXCEPT !.op = "Trace", !.raised = TRUE,
                                      !.error = "ValueError"]
            /\ emitted' = <<>>
            /\ UNCHANGED <<loggers, traces, stdout, stderr, nextObj, docs>>
       ELSE LET sid == IF session_uuid = None THEN UniqueRef(nextRef) ELSE session_uuid
                t == Len(traces) + 1
            IN /\ SetWorld(_bootstrap(TraceInit(World, log_level, log_dir_name, sid), t))
               /\ nextRef' = IF session_uuid = None THEN nextRef + 1 ELSE nextRef
               /\ call' = NoCall
               /\ emitted' = <<>>
               /\ UNCHANGED docs
    /\ UNCHANGED <<fn, pc, frame, es, sinks, indices, pid>>

\* a new_session that gives the new id to every handle
NewSessionOfAll(t) ==
    /\ nextRef <= MaxRefs
    /\ traces' = [u \in DOMAIN traces |->
                     [traces[u] EXCEPT !.session_uuid = UniqueRef(nextRef)]]
    /\ nextRef' = nextRef + 1
    /\ call' = NoCall
    /\ emitted' = <<>>
    /\ UNCHANGED <<fn, loggers, stdout, stderr, nextObj, docs, pc, frame, es, sinks, indices, pid>>

\* trace.new_session()
NewSession(t) ==
    /\ nextRef <= MaxRefs
    /\ traces' = [traces EXCEPT ![t].session_uuid = UniqueRef(nextRef)]
    /\ nextRef' = nextRef + 1
    /\ call' = NoCall
    /\ emitted' = <<>>
    /\ UNCHANGED <<fn, loggers, stdout, stderr, nextObj, docs, pc, frame, es, sinks, indices, pid>>

\* a set_log_level that starts a new session as well
SetLogLevelNewSession(t, level) ==
    /\ nextRef <= MaxRefs
    /\ traces' = [traces EXCEPT ![t].log_level = level,
                                ![t].session_uuid = UniqueRef(nextRef)]
    /\ nextRef' = nextRef + 1
    /\ call' = NoCall
    /\ emitted' = <<>>
    /\ UNCHANGED <<fn, loggers, stdout, stderr, nextObj, docs, pc, frame, es, sinks, indices, pid>>

\* trace.set_log_level(level)
SetLogLevel(t, level) ==
    /\ traces' = [traces EXCEPT ![t].log_level = level]
    /\ call' = NoCall
    /\ emitted' = <<>>
    /\ UNCHANGED <<fn, loggers, stdout, stderr, nextObj, nextRef, docs, pc, frame, es, sinks, indices, pid>>

\* trace.enable_handler(None) and trace.enable_handler(x), x no logging.Handler:
\* the first raises ValueError; the second fails while it builds the message
\* of its ValueError, on handler.__class__.name
EnableHandlerInvalid(t, arg) ==
    /\ call' = [NoCall EXCEPT !.op = "enable_handler", !.raised = TRUE,
                              !.error = IF arg = None THEN "ValueError"
                                        ELSE "AttributeError"]
    /\ emitted' = <<>>
    /\ UNCHANGED <<fn, loggers, traces, stdout, stderr, nextObj, nextRef, docs, pc, frame, es, sinks, indices, pid>>

\* trace.enable_handler(handler) with a logging.Handler
EnableHandler(t, handler) ==
    /\ SetWorld(EnableAttach(World, t, handler,
                             contains_handler(LoggerOf(World, t).handlers, handler.name)))
    /\ call' = [NoCall EXCEPT !.op = "enable_handler", !.name = handler.name]
    /\ emitted' = <<>>
    /\ UNCHANGED <<fn, nextRef, docs, pc, frame, es, sinks, indices, pid>>

\* a handler object the caller has just made: an ElasticHandler on the index
\* when it carries that handler's name, some other logging.Handler otherwise
NewHandler(name) ==
    [id |-> nextObj, name |-> name, level |-> NOTSET,
     kind |-> IF name = _ELASTIC_HANDLER_UNIQUE_NAME THEN "store" ELSE "other",
     target |-> IF name = _ELASTIC_HANDLER_UNIQUE_NAME THEN InIndexName ELSE None]

\* the handlers that emitted include a store sink, so the store was asked
StoreAsked(hs, ids) ==
    \E k \in DOMAIN ids : \E i \in DOMAIN hs : hs[i].id = ids[k] /\ hs[i].kind = "store"

\* trace.log(msg, level), the store answering ack to a write: the call
\* remembers the answer when the store was asked, and the RuntimeError of
\* ElasticHandler.emit, the one emit of the model that raises
Log(t, msg, level, ack) ==
    /\ \E r \in {LoggerLog(loggers[traces[t].logger],
                            LogRecord(loggers[traces[t].logger], traces[t], msg, level),
                            ack)} :
          /\ Len(docs \o r.written) <= MaxDocs
          /\ docs' = docs \o r.written
          /\ emitted' = r.emitted
          /\ call' = [NoCall EXCEPT !.op = "log", !.trace = t, !.level = level,
                                   !.msg = msg, !.raised = r.raised,
                                   !.error = IF r.raised THEN "RuntimeError" ELSE "",
                                   !.ack = IF StoreAsked(loggers[traces[t].logger].handlers,
                                                         r.emitted)
                                           THEN ack ELSE ""]
    /\ UNCHANGED <<fn, loggers, traces, stdout, stderr, nextObj, nextRef, pc, frame, es, sinks, indices, pid>>

\* trace.get_handler_by_name(handler_name): the call remembers the identity
\* of the handler returned, NoHandler for None
GetHandlerByName(t, handler_name) ==
    /\ call' = [NoCall EXCEPT
                   !.op = "get_handler_by_name", !.trace = t, !.name = handler_name,
                   !.result = IF loggers[traces[t].logger].handlers = <<>> THEN NoHandler
                              ELSE get_handler_by_name(loggers[traces[t].logger].handlers,
                                                       handler_name).id]
    /\ emitted' = <<>>
    /\ UNCHANGED <<fn, loggers, traces, stdout, stderr, nextObj, nextRef, docs, pc, frame,
                   es, sinks, indices, pid>>

Handles == DOMAIN traces

\* the handlers attached to the logger handle t holds
HandlersOf(t) == loggers[traces[t].logger].handlers

\* the operations that make handles and attach sinks, on every input
Next ==
    \/ \E l \in InLogLevels, d \in InLogDirs, s \in InSessionUuids : Construct(l, d, s)
    \/ \E t \in Handles : NewSession(t)
    \/ \E t \in Handles, n \in InSinkNames : EnableHandler(t, NewHandler(n))
    \/ \E t \in Handles : \E i \in DOMAIN HandlersOf(t) :
          EnableHandler(t, HandlersOf(t)[i])

Spec == Init /\ [][Next]_vars

\* logging through handles made at either level, with a fixed session id and
\* no log directory, the store answering every way it can
NextLog ==
    \/ \E l \in InLogLevels : Construct(l, None, "S1")
    \/ \E t \in Handles, n \in InSinkNames : EnableHandler(t, NewHandler(n))
    \/ \E t \in Handles, m \in InMsgs, l \in InLogArgLevels, a \in Acks : Log(t, m, l, a)

SpecLog == Init /\ [][NextLog]_vars

\* changing the level of a handle between attaching sinks, valid and not,
\* and logging one message, the store acknowledging every write
NextLevel ==
    \/ \E l \in InLogLevels : Construct(l, None, "S1")
    \/ \E t \in Handles, l \in InSetLevels : SetLogLevel(t, l)
    \/ \E t \in Handles, a \in InInvalidHandlers : EnableHandlerInvalid(t, a)
    \/ \E t \in Handles, n \in InSinkNames \cup {trace_console_handler_unique_name} :
          GetHandlerByName(t, n)
    \/ \E t \in Handles, n \in InSinkNames : EnableHandler(t, NewHandler(n))
    \/ \E t \in Handles, l \in InLogArgLevels : Log(t, <<"m">>, l, "created")

SpecLevel == Init /\ [][NextLevel]_vars

\* the operations that could touch a sink that is attached: constructions
\* at two levels, set_log_level, new_session, enable_handler of a name that
\* is attached or not, and logs at the two levels
NextSink ==
    \/ \E l \in InLogLevels : Construct(l, None, "S1")
    \/ \E t \in Handles, l \in InSetLevels : SetLogLevel(t, l)
    \/ \E t \in Handles : NewSession(t)
    \/ \E t \in Handles : EnableHandler(t, NewHandler("Other"))
    \/ \E t \in Handles, l \in {DEBUG, ERROR} : Log(t, <<"m">>, l, "created")

SpecSink == Init /\ [][NextSink]_vars

\* every operation of a handle but the attaching of a file sink, on handles
\* made at one level with and without a session id, the store acknowledging
\* every write
NextSession ==
    \/ \E s \in InSessionUuids : Construct(debug, None, s)
    \/ \E t \in Handles : NewSession(t)
    \/ \E t \in Handles, l \in InSetLevels : SetLogLevel(t, l)
    \/ \E t \in Handles : EnableHandler(t, NewHandler(_ELASTIC_HANDLER_UNIQUE_NAME))
    \/ \E t \in Handles, l \in InLogArgLevels : Log(t, <<"m">>, l, "created")

SpecSession == Init /\ [][NextSession]_vars

(***************************************************************************)
(* Threads of one process, each constructing a Trace and then attaching an *)
(* ElasticHandler of its own making.  The interpreter may switch threads   *)
(* between any two statements, so the loops that look a name up and the    *)
(* statements that attach are steps of their own.  No statement of         *)
(* Trace.py takes a lock.                                                  *)
(***************************************************************************)
Goto(th, label) == pc' = [pc EXCEPT ![th] = label]

\* __init__ and the first statements of _bootstrap (Trace.py 72-140)
T_Init(th, log_level, log_dir_name) ==
    /\ pc[th] = "start"
    /\ LET t == Len(traces) + 1 IN
       /\ SetWorld(BootstrapLogger(
              TraceInit(World, log_level, log_dir_name, UniqueRef(nextRef)), t))
       /\ frame' = [frame EXCEPT ![th].trace = t]
    /\ nextRef' = nextRef + 1
    /\ Goto(th, "console_check")
    /\ UNCHANGED <<fn, docs, call, emitted, es, sinks, indices, pid>>

\* enable_console_handler, the loop (Trace.py 175-179)
T_ConsoleCheck(th) ==
    /\ pc[th] = "console_check"
    /\ SetWorld(ConsoleCheck(World, frame[th].trace))
    /\ Goto(th, "console_attach")
    /\ UNCHANGED <<fn, nextRef, docs, call, emitted, es, sinks, indices, pid, frame>>

\* enable_console_handler, the attach (Trace.py 181-186)
T_ConsoleAttach(th) ==
    /\ pc[th] = "console_attach"
    /\ SetWorld(ConsoleAttach(World, frame[th].trace))
    /\ Goto(th, "file_check")
    /\ UNCHANGED <<fn, nextRef, docs, call, emitted, es, sinks, indices, pid, frame>>

\* enable_file_handler, the loop (Trace.py 193-197)
T_FileCheck(th) ==
    /\ pc[th] = "file_check"
    /\ SetWorld(FileCheck(World, frame[th].trace))
    /\ Goto(th, "file_attach")
    /\ UNCHANGED <<fn, nextRef, docs, call, emitted, es, sinks, indices, pid, frame>>

\* enable_file_handler, the attach (Trace.py 199-205)
T_FileAttach(th) ==
    /\ pc[th] = "file_attach"
    /\ SetWorld(FileAttach(World, frame[th].trace))
    /\ Goto(th, "redirect")
    /\ UNCHANGED <<fn, nextRef, docs, call, emitted, es, sinks, indices, pid, frame>>

\* the redirection of sys.stdout and sys.stderr (Trace.py 143-146)
T_Redirect(th) ==
    /\ pc[th] = "redirect"
    /\ SetWorld(Redirect(World, frame[th].trace))
    /\ Goto(th, "enable_check")
    /\ UNCHANGED <<fn, nextRef, docs, call, emitted, es, sinks, indices, pid, frame>>

\* enable_handler, the name check (Trace.py 220)
T_EnableCheck(th) ==
    /\ pc[th] = "enable_check"
    /\ frame' = [frame EXCEPT ![th].contained =
                    contains_handler(HandlersOf(frame[th].trace),
                                     _ELASTIC_HANDLER_UNIQUE_NAME)]
    /\ Goto(th, "enable_attach")
    /\ UNCHANGED <<fn, loggers, traces, stdout, stderr, nextObj, nextRef, docs, call, emitted, es, sinks, indices, pid>>

\* enable_handler, the attach (Trace.py 221-222)
T_EnableAttach(th) ==
    /\ pc[th] = "enable_attach"
    /\ SetWorld(EnableAttach(World, frame[th].trace,
                             NewHandler(_ELASTIC_HANDLER_UNIQUE_NAME),
                             frame[th].contained))
    /\ Goto(th, "done")
    /\ UNCHANGED <<fn, nextRef, docs, call, emitted, es, sinks, indices, pid, frame>>

NextThreads ==
    \/ \E th \in Threads, l \in InLogLevels, d \in {None, "."} : T_Init(th, l, d)
    \/ \E th \in Threads : T_ConsoleCheck(th)
    \/ \E th \in Threads : T_ConsoleAttach(th)
    \/ \E th \in Threads : T_FileCheck(th)
    \/ \E th \in Threads : T_FileAttach(th)
    \/ \E th \in Threads : T_Redirect(th)
    \/ \E th \in Threads : T_EnableCheck(th)
    \/ \E th \in Threads : T_EnableAttach(th)

SpecThreads == Init /\ [][NextThreads]_vars

(***************************************************************************)
(* ElasticTraceBootStrap, the connection factory and the connection cache  *)
(* of ESUtil.  A connection is [url, id, pid]: the connection string it    *)
(* was made for, its identity, and the process that made it.               *)
(***************************************************************************)
\* ESUtil.get_connection, the connection string
connection_str(hostname, port_id) == <<"http://", hostname, ":", port_id>>

\* ESUtil.get_connection: the connection cached under the connection string,
\* made by process p and cached when there is none
get_connection(cache, hostname, port_id, p) ==
    LET url == connection_str(hostname, port_id) IN
    IF \E c \in cache : c.url = url
    THEN [es |-> cache, conn |-> CHOOSE c \in cache : c.url = url]
    ELSE LET c == [url |-> url, id |-> Cardinality(cache) + 1, pid |-> p]
         IN [es |-> cache \cup {c}, conn |-> c]

\* TraceElasticConnectionFactory(hostname, port_id, ...)
TraceElasticConnectionFactory(hostname, port_id) ==
    [hostname |-> hostname, port_id |-> port_id]

\* TraceElasticConnectionFactory.new_connection
new_connection(factory, cache, p) ==
    get_connection(cache, factory.hostname, factory.port_id, p)

\* the fields of an ElasticTraceBootStrap under construction, with the state
\* its statements work on: trace is 0 for the argument None
Boot(trace, port_id, index_name) ==
    [w |-> World, nextRef |-> nextRef, es |-> es, sinks |-> sinks, indices |-> indices,
     trace |-> trace, port_id |-> port_id, index_name |-> index_name,
     factory |-> NoFactory, es_connection |-> NoConnection,
     raised |-> FALSE, error |-> "", at |-> ""]

Raise(b, exc, at) == [b EXCEPT !.raised = TRUE, !.error = exc, !.at = at]

\* __init__, self._trace: the trace given, else Trace(initial_log_level,
\* log_dir_name), which draws a session id and may raise ValueError
BootTrace(b, initial_log_level, log_dir_name) ==
    IF b.trace # 0 THEN b
    ELSE IF log_dir_name # None /\ ~isdir(log_dir_name)
         THEN Raise([b EXCEPT !.nextRef = @ + 1], "ValueError", "Trace")
         ELSE LET t == Len(b.w.traces) + 1 IN
              [b EXCEPT !.w = _bootstrap(TraceInit(@, initial_log_level, log_dir_name,
                                                   UniqueRef(b.nextRef)), t),
                        !.nextRef = @ + 1,
                        !.trace = t]

\* _validate_port_id: node_port is what the look-up of the node port answers
_validate_port_id(b, node_port) ==
    IF b.port_id = NoPort
    THEN IF node_port = NoPort
         THEN Raise(b, "Exception", "_validate_port_id")
         ELSE [b EXCEPT !.port_id = node_port]
    ELSE Raise(b, "ValueError", "_validate_port_id")

\* _connect_to_elastic, in process p
_connect_to_elastic(b, p) ==
    LET factory == IF b.factory = NoFactory
                   THEN TraceElasticConnectionFactory(InHostname, b.port_id)
                   ELSE b.factory
        c == new_connection(factory, b.es, p)
    IN IF b.es_connection = NoConnection
       THEN [b EXCEPT !.factory = factory, !.es = c.es, !.es_connection = c.conn]
       ELSE [b EXCEPT !.factory = factory]

\* _validate_or_create_index: ESUtil.index_exists and, for an index the
\* store does not hold, ESUtil.create_index_from_json
_validate_or_create_index(b, store) ==
    IF store = "raise" THEN Raise(b, "RuntimeError", "_validate_or_create_index")
    ELSE IF b.index_name \in b.indices THEN b
    ELSE [b EXCEPT !.indices = @ \cup {b.index_name}]

\* _create_and_attach_elastic_handler, in process p: ElasticHandler.__init__
\* and trace.enable_handler
_create_and_attach_elastic_handler(b, p) ==
    LET c == new_connection(b.factory, b.es, p)
        elastic_handler == [id |-> b.w.nextObj, name |-> _ELASTIC_HANDLER_UNIQUE_NAME,
                            level |-> NOTSET, kind |-> "store", target |-> b.index_name]
    IN [b EXCEPT !.es = c.es,
                 !.sinks = (elastic_handler.id :> [factory |-> b.factory, es |-> c.conn]) @@ @,
                 !.w = EnableAttach(@, b.trace, elastic_handler,
                                    contains_handler(LoggerOf(@, b.trace).handlers,
                                                     elastic_handler.name))]

\* __init__, the branch for a trace that has no handler of the store's name
BootAttach(b, node_port, store, p) ==
    LET b1 == _validate_port_id(b, node_port)
        b2 == _connect_to_elastic(b1, p)
        b3 == _validate_or_create_index(b2, store)
    IN IF b1.raised THEN b1
       ELSE IF b3.raised THEN b3
       ELSE _create_and_attach_elastic_handler(b3, p)

\* a branch for a trace that has one that accepts every index name
BootCheckIndexAny(b) == b

\* __init__, the branch for a trace that has one
BootCheckIndex(b) ==
    LET current_elastic_handler ==
            get_handler_by_name(LoggerOf(b.w, b.trace).handlers,
                                _ELASTIC_HANDLER_UNIQUE_NAME)
    IN IF current_elastic_handler.target # b.index_name
       THEN Raise(b, "ValueError", "index_name")
       ELSE b

\* an __init__ that does not ask whether the handler is attached
BootInitAlwaysAttach(trace, port_id, index_name, log_dir_name, node_port, store, p) ==
    LET b == BootTrace(Boot(trace, port_id, index_name), debug, log_dir_name) IN
    IF b.raised THEN b ELSE BootAttach(b, node_port, store, p)

\* ElasticTraceBootStrap.__init__
BootInit(trace, port_id, index_name, log_dir_name, node_port, store, p) ==
    LET b == BootTrace(Boot(trace, port_id, index_name), debug, log_dir_name) IN
    IF b.raised THEN b
    ELSE IF ~contains_handler(LoggerOf(b.w, b.trace).handlers, _ELASTIC_HANDLER_UNIQUE_NAME)
         THEN BootAttach(b, node_port, store, p)
         ELSE BootCheckIndex(b)

\* ElasticTraceBootStrap(trace, port_id=..., index_name=..., log_dir_name=...):
\* what it changed before it raised stays changed
BootStrap(trace, port_id, index_name, log_dir_name, node_port, store) ==
    /\ trace = 0 => Len(traces) < MaxTraces /\ nextRef <= MaxRefs
    /\ LET b == BootInit(trace, port_id, index_name, log_dir_name, node_port, store, pid)
       IN /\ SetWorld(b.w)
          /\ nextRef' = b.nextRef
          /\ es' = b.es
          /\ sinks' = b.sinks
          /\ indices' = b.indices
          /\ call' = [NoCall EXCEPT !.op = "ElasticTraceBootStrap", !.trace = trace,
                                    !.raised = b.raised, !.error = b.error, !.at = b.at,
                                    !.port_id = port_id, !.index_name = index_name,
                                    !.log_dir_name = log_dir_name]
    /\ emitted' = <<>>
    /\ UNCHANGED <<fn, docs, pc, frame, pid>>

\* os.fork(), followed in the child: it inherits every object of the parent
Fork ==
    /\ pid <= MaxForks
    /\ pid' = pid + 1
    /\ call' = NoCall
    /\ emitted' = <<>>
    /\ UNCHANGED <<fn, loggers, traces, stdout, stderr, nextObj, nextRef, docs, pc, frame,
                   es, sinks, indices>>

\* ElasticHandler.reset_for_new_process of the handler with identity h
ResetForNewProcess(h) ==
    /\ LET c == new_connection(sinks[h].factory, es, pid)
       IN /\ sinks' = [sinks EXCEPT ![h].es = c.conn]
          /\ es' = c.es
    /\ call' = [NoCall EXCEPT !.op = "reset_for_new_process"]
    /\ emitted' = <<>>
    /\ UNCHANGED <<fn, loggers, traces, stdout, stderr, nextObj, nextRef, docs, pc, frame,
                   indices, pid>>

\* bootstraps of the store sink, forks and resets
NextBoot ==
    \/ \E p \in InPortIds, i \in InIndexNames, d \in InLogDirs,
          n \in InNodePorts, s \in InStore : BootStrap(0, p, i, d, n, s)
    \/ \E t \in Handles, p \in InPortIds, i \in InIndexNames,
          n \in InNodePorts, s \in InStore : BootStrap(t, p, i, None, n, s)
    \/ Fork
    \/ \E h \in DOMAIN sinks : ResetForNewProcess(h)

SpecBoot == Init /\ [][NextBoot]_vars

(***************************************************************************)
(* Functions of the program that read no state, applied to inputs.         *)
(***************************************************************************)
\* the state of the program, which applying such a function leaves alone
program == <<loggers, traces, stdout, stderr, nextObj, nextRef, docs, call, emitted,
             pc, frame, es, sinks, indices, pid>>

\* the names LogLevel.new is called with
InLevelNames == {None, "", "DEBUG", "Info", "nonexistent",
                 "debug", "info", "warn", "error", "critical"}

\* LogLevel[level]: the member of that name, KeyError when there is none
LogLevelGetItem(level) ==
    CASE level = "debug" -> [raised |-> FALSE, member |-> debug]
      [] level = "info" -> [raised |-> FALSE, member |-> info]
      [] level = "warn" -> [raised |-> FALSE, member |-> warn]
      [] level = "error" -> [raised |-> FALSE, member |-> error]
      [] level = "critical" -> [raised |-> FALSE, member |-> critical]
      [] OTHER -> [raised |-> TRUE, member |-> NoLevel]

\* a new that lets the failure of the look-up out
LogLevelNewUnguarded(level) == LogLevelGetItem(level)

\* LogLevel.new(level)
LogLevelNew(level) ==
    LET target_log_level == LogLevelGetItem(level) IN
    IF target_log_level.raised THEN LogLevelGetItem("info") ELSE target_log_level

\* LogLevel.new(level) is called, in a run that applies one function once
ApplyNew(level) ==
    /\ fn = NoFn
    /\ fn' = [op |-> "new", arg |-> level, result |-> LogLevelNew(level)]
    /\ UNCHANGED program

\* the characters of the messages and the messages formatted, the names,
\* level numbers and creation times of the records
InChars == {"a", "'", "\"", "\\", "\n"}
InTexts == UNION {[1..n -> InChars] : n \in 0..MaxLen}
InRecordNames == {<<"S1">>, <<"a", "\"", "b">>}
InLevelNos == {0, 10, 15, 20, 30, 40, 50}
InCreated == {<<2000, 6, 20, 18, 37, 51, 67>>, <<2000, 6, 20, 18, 37, 51, 0>>}

\* ElasticFormatter.json_log_fields
json_log_fields == <<"session_uuid", "level", "timestamp", "message">>

\* DefaultElasticDateFormatter.format, on the creation times of the model
DateFormat(dtm) ==
    CASE dtm = <<2000, 6, 20, 18, 37, 51, 67>> -> "2000-06-20T18:37:51.000067+0000"
      [] dtm = <<2000, 6, 20, 18, 37, 51, 0>> -> "2000-06-20T18:37:51.000000+0000"

\* one "key":"value" of the template with its slot filled
Member(key, value) == <<"\"", key, "\"", ":", "\"">> \o value \o <<"\"">>

\* a format that places the message as it is
formatUnescaped(record) ==
    <<"{">> \o Member(json_log_fields[1], record.name)
        \o <<",">> \o Member(json_log_fields[2], <<_translate_level_no(record.levelno)>>)
        \o <<",">> \o Member(json_log_fields[3], <<DateFormat(record.created)>>)
        \o <<",">> \o Member(json_log_fields[4], record.msg)
        \o <<"}">>

\* ElasticFormatter.format: the text of the template
\* {"session_uuid":"{}","level":"{}","timestamp":"{}","message":"{}"}
\* with its four slots filled
format(record) ==
    LET sess_n == record.name
        type_n == _translate_level_no(record.levelno)
        trace_date == DateFormat(record.created)
        dumped == json_dumps(record.msg)
        message == SubSeq(dumped, 2, Len(dumped) - 1)
    IN <<"{">> \o Member(json_log_fields[1], sess_n)
           \o <<",">> \o Member(json_log_fields[2], <<type_n>>)
           \o <<",">> \o Member(json_log_fields[3], <<trace_date>>)
           \o <<",">> \o Member(json_log_fields[4], message)
           \o <<"}">>

\* json.loads, the scanner: the position of the quote that closes the
\* string whose content starts at i, 0 when the text ends before it
RECURSIVE ScanString(_, _)
ScanString(s, i) ==
    IF i > Len(s) THEN 0
    ELSE IF s[i] = "\"" THEN i
    ELSE IF s[i] = "\\" THEN ScanString(s, i + 2)
    ELSE ScanString(s, i + 1)

\* json.loads, the members of an object from position i on, each a string
\* key, a colon and a string value, with commas between and a closing brace
\* that ends the text
RECURSIVE ReadMembers(_, _)
ReadMembers(s, i) ==
    LET bad == [ok |-> FALSE, keys |-> <<>>, values |-> <<>>]
        k == ScanString(s, i + 1)
        v == ScanString(s, k + 3)
    IN IF i > Len(s) \/ s[i] # "\"" \/ k = 0 THEN bad
       ELSE IF k + 2 > Len(s) \/ s[k + 1] # ":" \/ s[k + 2] # "\"" \/ v = 0 THEN bad
       ELSE LET key == JsonUnescape(SubSeq(s, i + 1, k - 1))
                value == JsonUnescape(SubSeq(s, k + 3, v - 1))
            IN IF ~key.ok \/ ~value.ok \/ v + 1 > Len(s) THEN bad
               ELSE IF s[v + 1] = "}"
                    THEN [ok |-> v + 1 = Len(s), keys |-> <<key.text>>,
                          values |-> <<value.text>>]
               ELSE IF s[v + 1] = ","
                    THEN LET rest == ReadMembers(s, v + 2) IN
                         [ok |-> rest.ok, keys |-> <<key.text>> \o rest.keys,
                          values |-> <<value.text>> \o rest.values]
               ELSE bad

\* json.loads of a text that holds an object of strings: its keys and its
\* values in the order read, ok FALSE when the text is no such object
json_loads(s) ==
    IF s = <<>> \/ s[1] # "{" THEN [ok |-> FALSE, keys |-> <<>>, values |-> <<>>]
    ELSE ReadMembers(s, 2)

\* ElasticFormatter().format(record), and json.loads of what it returns
ApplyFormat(name, levelno, created, msg) ==
    /\ fn = NoFn
    /\ LET record == [name |-> name, levelno |-> levelno, created |-> created, msg |-> msg]
       IN fn' = [op |-> "format", arg |-> record, result |-> format(record),
                 parsed |-> json_loads(format(record))]
    /\ UNCHANGED program

\* the documents that match a query, in the order the store delivers them,
\* and the number of documents the store puts on a page
InHits == {[i \in 1..n |-> i] : n \in 0..MaxHits}
InPageSizes == 1..MaxPage

\* the k-th page the store delivers: es.search answers with the first,
\* each es.scroll with the next, and a page past the last document is empty
Page(hits, size, k) ==
    IF (k - 1) * size >= Len(hits) THEN <<>>
    ELSE SubSeq(hits, (k - 1) * size + 1,
                IF k * size < Len(hits) THEN k * size ELSE Len(hits))

\* a run_search that returns the first page
run_searchFirstPage(hits, size) ==
    [search_res |-> Page(hits, size, 1), scrolls |-> 0]

\* run_search, the while loop, k pages read and the last of scroll_size
\* documents: the documents read, and the number of scroll requests made
RECURSIVE Scroll(_, _, _, _, _)
Scroll(hits, size, k, search_res, scroll_size) ==
    IF scroll_size > 0
    THEN LET res == Page(hits, size, k + 1)
         IN Scroll(hits, size, k + 1, search_res \o res, Len(res))
    ELSE [search_res |-> search_res, scrolls |-> k - 1]

\* ESUtil.run_search on a store that answers every request
run_search(hits, size) ==
    LET res == Page(hits, size, 1) IN Scroll(hits, size, 1, res, Len(res))

\* ESUtil.run_search(es, idx_name, json_query) is called
ApplySearch(hits, size) ==
    /\ fn = NoFn
    /\ fn' = [op |-> "run_search", arg |-> [hits |-> hits, size |-> size],
              result |-> run_search(hits, size)]
    /\ UNCHANGED program

NextFn ==
    \/ \E level \in InLevelNames : ApplyNew(level)
    \/ \E hits \in InHits, size \in InPageSizes : ApplySearch(hits, size)
    \/ \E name \in InRecordNames, levelno \in InLevelNos, created \in InCreated,
          msg \in InTexts : ApplyFormat(name, levelno, created, msg)

SpecFn == Init /\ [][NextFn]_vars

\* Logger.removeHandler: the handlers without that object
removeHandler(hs, h) ==
    SelectSeq(hs, LAMBDA x : x.id # h.id)

\* the names the clean-up looks for:
\* (.*-ConsoleHandler|.*-FileHandler|.*-ElasticDBHandler)
CleanUpNames ==
    {trace_console_handler_unique_name, trace_file_handler_unique_name,
     _ELASTIC_HANDLER_UNIQUE_NAME}

\* the loop of _clean_up_handlers from handler i of the copy on: every handler
\* with one of the names is closed and removed from the logger
RECURSIVE _clean_up_handlers_from(_, _, _)
_clean_up_handlers_from(hs, handlers, i) ==
    IF i > Len(handlers) THEN hs
    ELSE _clean_up_handlers_from(IF handlers[i].name \in CleanUpNames
                                 THEN removeHandler(hs, handlers[i]) ELSE hs,
                                 handlers, i + 1)

\* _clean_up_handlers: on the logger of the name shared by all handles
_clean_up_handlers(ls) ==
    LET got == getLogger(ls, _TRACE_UNIQUE_NAME)
        lgr == got.loggers[got.id]
    IN [got.loggers EXCEPT ![got.id].handlers =
            _clean_up_handlers_from(lgr.handlers, lgr.handlers, 1)]

\* the number of objects the clean-up is run up to
MaxObjs == 6

\* the clean-up of the tests between two uses of Trace; sys.stdout, sys.stderr
\* and the handles already made stay as they are
CleanUpHandlers ==
    /\ nextObj <= MaxObjs
    /\ loggers' = _clean_up_handlers(loggers)
    /\ call' = [NoCall EXCEPT !.op = "_clean_up_handlers"]
    /\ emitted' = <<>>
    /\ UNCHANGED <<fn, traces, stdout, stderr, nextObj, nextRef, docs, pc, frame,
                   es, sinks, indices, pid>>

\* constructions, enable_handler calls and the clean-up of the handlers
NextCleanUp ==
    \/ \E l \in InLogLevels, d \in InLogDirs : Construct(l, d, "S1")
    \/ \E t \in Handles, n \in InSinkNames : EnableHandler(t, NewHandler(n))
    \/ CleanUpHandlers

SpecCleanUp == Init /\ [][NextCleanUp]_vars

(***************************************************************************)
(* The claims.                                                             *)
(***************************************************************************)
\* the names of the handlers of a list, and how many carry a given name
Names(hs) == {hs[i].name : i \in DOMAIN hs}
CountByName(hs, name) == Cardinality({i \in DOMAIN hs : hs[i].name = name})

\* the handle the last construction made, and the handlers its logger holds
\* after the step
NewHandle == traces'[Len(traces')]
HandlersAfter(t) == loggers'[traces'[t].logger].handlers

\* a step that constructs a Trace, and one that constructs a second or later
\* Trace
ConstructStep == Len(traces') = Len(traces) + 1
LaterConstructStep == Len(traces) >= 1 /\ ConstructStep

\* C1: after any number N >= 1 of successful constructions the shared logger
\* holds exactly one console handler and at most one file handler, and it
\* holds a file handler exactly when some construction gave a log directory.
C1_OneConsoleOneFile ==
    \A t \in Handles :
        /\ CountByName(HandlersOf(t), trace_console_handler_unique_name) = 1
        /\ CountByName(HandlersOf(t), trace_file_handler_unique_name) <= 1
        /\ (CountByName(HandlersOf(t), trace_file_handler_unique_name) = 1)
               <=> (\E u \in Handles : traces[u].log_dir_name # None)

\* C1's case: two constructions, both with a log directory, and one console
\* and one file handler on the logger.
C1_Witness ==
    /\ Len(traces) = 2
    /\ traces[1].log_dir_name = "."
    /\ traces[2].log_dir_name = "."
    /\ Names(HandlersOf(2)) = {trace_console_handler_unique_name,
                               trace_file_handler_unique_name}
    /\ Len(HandlersOf(2)) = 2

\* C2 as claimed: a second or later construction, whatever its arguments,
\* leaves the number and the names of the attached sinks as they were.
C2_AnyArgumentsSameSinks ==
    [][LaterConstructStep =>
          /\ Len(HandlersAfter(Len(traces'))) = Len(HandlersOf(1))
          /\ Names(HandlersAfter(Len(traces'))) = Names(HandlersOf(1))]_vars

\* C2 as amended: a second or later construction keeps every attached sink in
\* its place and attaches nothing, except for the file sink, which it attaches
\* after the others when it is given a log directory and none is attached.
C2_SameSinksButFile ==
    [][LaterConstructStep =>
          LET before == HandlersOf(1)
              after == HandlersAfter(Len(traces'))
              adds == /\ NewHandle.log_dir_name # None
                      /\ trace_file_handler_unique_name \notin Names(before)
          IN /\ NewHandle.logger = traces[1].logger
             /\ SubSeq(after, 1, Len(before)) = before
             /\ Len(after) = Len(before) + (IF adds THEN 1 ELSE 0)
             /\ Names(after) = Names(before) \cup
                    (IF adds THEN {trace_file_handler_unique_name} ELSE {})]_vars

\* C2's case: the first construction had no log directory, a sink was attached
\* by hand, and the second construction then added the file sink after it.
C2_Witness ==
    /\ Len(traces) = 2
    /\ traces[1].log_dir_name = None
    /\ traces[2].log_dir_name = "."
    /\ Len(HandlersOf(1)) = 3
    /\ HandlersOf(1)[1].name = trace_console_handler_unique_name
    /\ HandlersOf(1)[2].name = "Other"
    /\ HandlersOf(1)[3].name = trace_file_handler_unique_name

\* C3: enable_handler(h) deduplicates by name.  When a handler of h's name is
\* attached, whichever object it is, the call leaves the handlers as they were;
\* when none is, it appends h, the caller's object, whatever the number of
\* handlers attached, and leaves those attached before in their places.  The
\* handles are not changed either way.
C3_DedupByName ==
    [][call'.op = "enable_handler" /\ ~call'.raised =>
          /\ traces' = traces
          /\ \A t \in Handles :
                LET before == HandlersOf(t)
                    after == HandlersAfter(t)
                IN IF call'.name \in Names(before) THEN after = before
                   ELSE /\ Len(after) = Len(before) + 1
                        /\ SubSeq(after, 1, Len(before)) = before
                        /\ after[Len(after)].name = call'.name
                        /\ after[Len(after)].id = nextObj]_vars

\* C3's case: the last call was enable_handler with a handler named as the
\* store sink, which was attached before the fourth sink was; the four sinks
\* carry four names.
C3_Witness ==
    /\ Len(traces) >= 1
    /\ call.op = "enable_handler"
    /\ ~call.raised
    /\ call.name = _ELASTIC_HANDLER_UNIQUE_NAME
    /\ Len(HandlersOf(1)) = 4
    /\ Names(HandlersOf(1)) = {trace_console_handler_unique_name,
                               trace_file_handler_unique_name,
                               _ELASTIC_HANDLER_UNIQUE_NAME, "Other"}
    /\ HandlersOf(1)[4].name = "Other"

\* C4: in every interleaving of threads that construct a Trace and call
\* enable_handler, at most one sink of each name ends up attached.
C4_AtMostOneSinkPerName ==
    \A g \in DOMAIN loggers :
        \A i, j \in DOMAIN loggers[g].handlers :
            i # j => loggers[g].handlers[i].name # loggers[g].handlers[j].name

\* C5: all handles hold the same logger, so a sink attached through one handle
\* is reported by contains_handler through every handle, whenever made.
C5_SharedLogger ==
    \A t, u \in Handles :
        /\ traces[t].logger = traces[u].logger
        /\ \A i \in DOMAIN HandlersOf(t) :
               contains_handler(HandlersOf(u), HandlersOf(t)[i].name)

\* C5's case: two handles and sinks attached by enable_handler, the store
\* sink before the second handle was made (the file sink follows it) and the
\* other sink after.
C5_Witness ==
    /\ Len(traces) = 2
    /\ Len(HandlersOf(2)) = 4
    /\ HandlersOf(1)[2].name = _ELASTIC_HANDLER_UNIQUE_NAME
    /\ HandlersOf(1)[3].name = trace_file_handler_unique_name
    /\ HandlersOf(2)[4].name = "Other"
    /\ traces[1].log_dir_name = None

\* C10: new_session replaces the session id of its handle with one no handle
\* holds, and changes nothing else: the other fields of the handle, the other
\* handles, the loggers with their levels and sinks, and the redirection stay.
\* A step that changes the session id of a handle is a new_session.
C10_NewSessionFrame ==
    [][(Len(traces') = Len(traces) /\
        \E t \in Handles : traces'[t].session_uuid # traces[t].session_uuid) =>
          \E t \in Handles :
              /\ traces' = [traces EXCEPT ![t].session_uuid = traces'[t].session_uuid]
              /\ \A u \in Handles : traces'[t].session_uuid # traces[u].session_uuid
              /\ UNCHANGED <<loggers, stdout, stderr, nextObj, docs>>]_vars

\* C10's case: the first handle holds an id drawn after the id of the second
\* handle, so new_session has run on it; its logger still holds its sinks.
C10_Witness ==
    /\ Len(traces) = 2
    /\ traces[1].session_uuid = UniqueRef(2)
    /\ traces[2].session_uuid = UniqueRef(1)
    /\ Len(HandlersOf(1)) >= 2

\* the logger of the handle the last log call went through, the identities of
\* a list of handlers, and the handlers whose level admits a level
CallLogger == loggers[traces[call.trace].logger]
Ids(hs) == [i \in DOMAIN hs |-> hs[i].id]
Eligible(hs, level) == SelectSeq(hs, LAMBDA h : h.level <= level)

\* the last call was log(msg, level) with a native level the logger admits
ExplicitPermitted ==
    /\ call.op = "log"
    /\ call.level # NoLevel
    /\ call.level >= CallLogger.level

\* the last call was a log that returned after the store sink wrote a document
StoreWrote ==
    /\ call.op = "log"
    /\ ~call.raised
    /\ \E k \in DOMAIN emitted : \E i \in DOMAIN CallLogger.handlers :
           /\ CallLogger.handlers[i].id = emitted[k]
           /\ CallLogger.handlers[i].kind = "store"

\* C6 as claimed: log(msg, level) with a native level the logger admits has
\* every attached sink whose level is at most level emit the record once, and
\* no other sink.
C6_EverySinkAtOrBelowLevel ==
    ExplicitPermitted => emitted = Ids(Eligible(CallLogger.handlers, call.level))

\* C6 as amended: the sinks whose level is at most level emit the record once
\* each, in the order of attachment, up to and including the first whose emit
\* raises (the store sink, when its write fails); no sink after that one and no
\* sink of a higher level emits it; log leaves handles and loggers as they were.
C6_SinksUpToFirstFailure ==
    /\ [](ExplicitPermitted =>
            LET elig == Eligible(CallLogger.handlers, call.level) IN
            IF ~call.raised THEN emitted = Ids(elig)
            ELSE \E k \in DOMAIN elig :
                    /\ emitted = Ids(SubSeq(elig, 1, k))
                    /\ elig[k].kind = "store")
    /\ [][call'.op = "log" => UNCHANGED <<loggers, traces, stdout, stderr>>]_vars

\* C6's case: a log at a level the logger admits raised after the console
\* sink and the store sink had emitted the record, and a third sink, whose
\* level admits the record too, did not emit it.
C6_Witness ==
    /\ ExplicitPermitted
    /\ call.raised
    /\ Len(emitted) = 2
    /\ Len(Eligible(CallLogger.handlers, call.level)) = 3

\* C7: log(msg) without a level, through a handle whose level is the LogLevel
\* it was constructed with, has every attached sink emit the record once.
C7_OmittedLevelReachesEverySink ==
    (/\ call.op = "log"
     /\ call.level = NoLevel
     /\ ~call.raised
     /\ traces[call.trace].log_level \in LogLevels)
        => emitted = Ids(CallLogger.handlers)

\* C8: the document the store sink writes for a log call carries in
\* session_uuid the session id of the handle the call went through.
C8_DocCarriesSessionId ==
    StoreWrote => docs[Len(docs)].session_uuid = <<traces[call.trace].session_uuid>>

\* C9: the document the store sink writes for log(m) has the message m.
C9_DocMessageIsMsg ==
    StoreWrote => docs[Len(docs)].message = call.msg

\* C11: the session id of a handle changes only by new_session on that handle.
\* A construction given a session id makes a handle that holds that id; and no
\* step that is a log, an enable_handler or a set_log_level through any handle,
\* a construction, or a new_session on another handle changes the id a handle
\* holds.
C11_SessionIdImmutable ==
    [][/\ \A s \in InSessionUuids \ {None} :
              (Construct(debug, None, s) /\ ConstructStep) => NewHandle.session_uuid = s
       /\ (\/ \E u \in Handles, l \in InLogArgLevels : Log(u, <<"m">>, l, "created")
           \/ \E u \in Handles :
                  EnableHandler(u, NewHandler(_ELASTIC_HANDLER_UNIQUE_NAME))
           \/ \E u \in Handles, l \in InSetLevels : SetLogLevel(u, l)
           \/ \E s \in InSessionUuids : Construct(debug, None, s))
              => \A t \in Handles : traces'[t].session_uuid = traces[t].session_uuid
       /\ \A u \in Handles :
              NewSession(u) => \A t \in Handles \ {u} :
                                  traces'[t].session_uuid = traces[t].session_uuid]_vars

\* C11's case: the first handle still holds the id it was constructed with
\* after its level was set, a sink was attached, the second handle started a
\* new session and a record was logged.
C11_Witness ==
    /\ Len(traces) = 2
    /\ traces[1].session_uuid = "S1"
    /\ traces[1].log_level = ERROR
    /\ traces[2].session_uuid = UniqueRef(2)
    /\ Len(HandlersOf(1)) = 2
    /\ call.op = "log"
    /\ call.trace = 1
    /\ Len(docs) = 1

\* C12: when the store sink is asked to write during log() and the write
\* fails, because the store call raises or because its answer is not
\* 'created', log() raises to its caller and no document is written.
C12_WriteFailureRaises ==
    /\ [](call.op = "log" /\ call.ack \in Acks \ {"created"} =>
             call.raised /\ call.error # "")
    /\ [][call'.op = "log" /\ call'.ack \in Acks \ {"created"} => docs' = docs]_vars

\* C12's case: log() raised with the store call raising, after the console
\* sink and the store sink had been handed the record.
C12_Witness ==
    /\ call.op = "log"
    /\ call.ack = "raise"
    /\ call.raised
    /\ Len(emitted) = 2
    /\ docs = <<>>

\* C16: the store call not failing, emit returns normally when the answer is
\* 'created', and the document is then written; for every other answer, one
\* without a result included, it raises RuntimeError.
C16_OnlyCreatedSucceeds ==
    /\ [](call.op = "log" /\ call.ack \in Acks \ {"raise"} =>
             /\ call.raised <=> call.ack # "created"
             /\ call.raised => call.error = "RuntimeError")
    /\ [][call'.op = "log" /\ call'.ack = "created" => Len(docs') = Len(docs) + 1]_vars

\* C16's case: log() raised on an answer without a result, the store sink
\* having been handed the record.
C16_Witness ==
    /\ call.op = "log"
    /\ call.ack = "missing"
    /\ call.raised
    /\ call.error = "RuntimeError"
    /\ Len(emitted) >= 2

\* C13: reset_for_new_process leaves the sink it is called on with a
\* connection that is another object than the one the sink held before
C13_ResetGivesFreshConnection ==
    [][call'.op = "reset_for_new_process" =>
          \E h \in DOMAIN sinks : sinks'[h].es # sinks[h].es]_vars

\* C14: a Trace construction that raises, which is one given a directory
\* name that is no directory, raises ValueError and leaves the loggers
\* (handlers, level, propagation), the handles and stdout and stderr as
\* they were
C14_BadDirectoryFailsFirst ==
    /\ [](call.op = "Trace" /\ call.raised => call.error = "ValueError")
    /\ [][call'.op = "Trace" /\ call'.raised =>
              /\ loggers' = loggers
              /\ traces' = traces
              /\ stdout' = stdout
              /\ stderr' = stderr
              /\ nextObj' = nextObj]_vars

\* a construction has failed on a logger that a construction at debug made
C14_Witness ==
    /\ call.op = "Trace"
    /\ call.raised
    /\ Len(traces) = 1
    /\ Len(loggers) = 1
    /\ loggers[1].level = DEBUG
    /\ Names(loggers[1].handlers) = {trace_console_handler_unique_name}
    /\ stdout.by = 1

\* C15: an enable_handler that raises, which is one given None or a value
\* that is no logging.Handler, raises ValueError and leaves the handlers of
\* every logger as they were
C15_InvalidSinkIsValueError ==
    /\ [](call.op = "enable_handler" /\ call.raised => call.error = "ValueError")
    /\ [][call'.op = "enable_handler" /\ call'.raised => loggers' = loggers]_vars

\* C17: an ElasticTraceBootStrap(trace=None, log_dir_name='.') that returns
\* leaves the shared logger with three handlers, a console, a file and a
\* store handler.  When a store handler was attached it makes no connection,
\* creates no index and no handler; when none was, it holds the index, and
\* the handler it made is attached last and holds a connection of the cache.
\* No logger ever has two store handlers.
C17_BootStrapAttachesOnce ==
    /\ [](\A g \in DOMAIN loggers :
              CountByName(loggers[g].handlers, _ELASTIC_HANDLER_UNIQUE_NAME) <= 1)
    /\ [][/\ call'.op = "ElasticTraceBootStrap"
          /\ ~call'.raised
          /\ call'.trace = 0
          /\ call'.log_dir_name = "."
          => LET before == IF loggers = <<>> THEN <<>> ELSE loggers[1].handlers
                 after == loggers'[1].handlers
             IN /\ Len(loggers') = 1
                /\ Len(after) = 3
                /\ Names(after) = {trace_console_handler_unique_name,
                                   trace_file_handler_unique_name,
                                   _ELASTIC_HANDLER_UNIQUE_NAME}
                /\ IF contains_handler(before, _ELASTIC_HANDLER_UNIQUE_NAME)
                   THEN /\ es' = es
                        /\ indices' = indices
                        /\ sinks' = sinks
                        /\ SubSeq(after, 1, Len(before)) = before
                        /\ \A i \in DOMAIN after :
                              i > Len(before) =>
                                  after[i].name = trace_file_handler_unique_name
                   ELSE /\ call'.index_name \in indices'
                        /\ after[3].name = _ELASTIC_HANDLER_UNIQUE_NAME
                        /\ after[3].target = call'.index_name
                        /\ DOMAIN sinks' = DOMAIN sinks \cup {after[3].id}
                        /\ after[3].id \notin DOMAIN sinks
                        /\ sinks'[after[3].id].es \in es']_vars

\* two bootstraps made a handle each, the second returned, and the logger
\* has its three handlers and the cache its one connection
C17_Witness ==
    /\ Len(traces) = 2
    /\ call.op = "ElasticTraceBootStrap"
    /\ ~call.raised
    /\ call.trace = 0
    /\ call.log_dir_name = "."
    /\ Len(loggers[1].handlers) = 3
    /\ loggers[1].handlers[3].name = _ELASTIC_HANDLER_UNIQUE_NAME
    /\ Cardinality(es) = 1
    /\ DOMAIN sinks = {loggers[1].handlers[3].id}

\* C18: an ElasticTraceBootStrap given a port_id does not fail in the
\* validation of the port
C18_ExplicitPortAccepted ==
    call.op = "ElasticTraceBootStrap" /\ call.port_id # NoPort =>
        call.at # "_validate_port_id"

\* C19: stdout and stderr are the process's own streams until the first
\* Trace is constructed; from then on stdout is the StreamToLogger that
\* construction made on its logger at INFO and stderr the one it made at
\* ERROR, and no step replaces a StreamToLogger once it is installed
C19_RedirectedOnce ==
    /\ [](IF traces = <<>>
          THEN ~stdout.redirect /\ ~stderr.redirect
          ELSE /\ stdout = [redirect |-> TRUE, logger |-> traces[1].logger,
                            level |-> INFO, by |-> 1]
               /\ stderr = [redirect |-> TRUE, logger |-> traces[1].logger,
                            level |-> ERROR, by |-> 1])
    /\ [][/\ stdout.redirect => stdout' = stdout
          /\ stderr.redirect => stderr' = stderr]_vars

\* a second handle was constructed and the streams are those of the first
C19_Witness ==
    /\ Len(traces) = 2
    /\ stdout.redirect
    /\ stdout.by = 1
    /\ stderr.redirect
    /\ stderr.by = 1

\* C20: LogLevel.set maps debug, info, warn, error, critical to 10, 20, 30,
\* 40, 50, in that order; a construction leaves the logger of its handle at
\* the level mapped from its LogLevel, and the level of the logger every
\* handle holds is the one mapped from the LogLevel of the last construction
C20_LoggerLevelOfLastConstruction ==
    /\ [](/\ LogLevelSet(debug) = 10
          /\ LogLevelSet(info) = 20
          /\ LogLevelSet(warn) = 30
          /\ LogLevelSet(error) = 40
          /\ LogLevelSet(critical) = 50
          /\ \A l, m \in LogLevels : l < m => LogLevelSet(l) < LogLevelSet(m))
    /\ [](\A t \in Handles :
              loggers[traces[t].logger].level = 10 * (traces[Len(traces)].log_level + 1))
    /\ [][ConstructStep =>
              loggers'[NewHandle.logger].level = 10 * (NewHandle.log_level + 1)]_vars

\* a construction at error followed one at debug, and the logger is at 40
C20_Witness ==
    /\ Len(traces) = 2
    /\ traces[1].log_level = debug
    /\ traces[2].log_level = error
    /\ traces[1].logger = traces[2].logger
    /\ loggers[traces[1].logger].level = ERROR

\* C21: LogLevel.new raises for no name; it returns the member called name
\* for debug, info, warn, error and critical, and info for every other name,
\* None, the empty string and a wrongly-cased name among them
C21_NewIsTotal ==
    fn.op = "new" =>
        /\ ~fn.result.raised
        /\ fn.result.member \in LogLevels
        /\ fn.result.member = CASE fn.arg = "debug" -> debug
                                [] fn.arg = "info" -> info
                                [] fn.arg = "warn" -> warn
                                [] fn.arg = "error" -> error
                                [] fn.arg = "critical" -> critical
                                [] OTHER -> info

\* new was called with a wrongly-cased name and returned info
C21_Witness ==
    /\ fn.op = "new"
    /\ fn.arg = "DEBUG"
    /\ ~fn.result.raised
    /\ fn.result.member = info

\* C22: for a record of any level number and any message, under a name made
\* of characters JSON does not escape, the text format returns parses as
\* JSON, and the message of the parsed object is the message of the record
C22_MessageRoundTrip ==
    fn.op = "format" /\ fn.arg.name = <<"S1">> =>
        /\ fn.parsed.ok
        /\ \E i \in DOMAIN fn.parsed.keys :
              /\ fn.parsed.keys[i] = <<"message">>
              /\ fn.parsed.values[i] = fn.arg.msg
        /\ \A i \in DOMAIN fn.parsed.keys :
              fn.parsed.keys[i] = <<"message">> => fn.parsed.values[i] = fn.arg.msg

\* a message of a double quote and a backslash was formatted at a level the
\* table does not hold, and read back
C22_Witness ==
    /\ fn.op = "format"
    /\ fn.arg.name = <<"S1">>
    /\ fn.arg.levelno = 15
    /\ fn.arg.msg = <<"\"", "\\">>
    /\ fn.parsed.ok
    /\ fn.parsed.values[4] = <<"\"", "\\">>

\* C23: the text format returns for a record parses as one JSON object whose
\* keys are session_uuid, level, timestamp, message in that order, whose
\* values are the record's name, the level name of the table (the decimal
\* string of a number the table does not hold), the rendered creation time
\* and the message
C23_FourKeysInOrder ==
    fn.op = "format" =>
        /\ fn.parsed.ok
        /\ fn.parsed.keys = <<<<"session_uuid">>, <<"level">>, <<"timestamp">>, <<"message">>>>
        /\ fn.parsed.values[1] = fn.arg.name
        /\ fn.parsed.values[2] = << CASE fn.arg.levelno = 50 -> "CRITICAL"
                                      [] fn.arg.levelno = 40 -> "ERROR"
                                      [] fn.arg.levelno = 30 -> "WARNING"
                                      [] fn.arg.levelno = 20 -> "INFO"
                                      [] fn.arg.levelno = 10 -> "DEBUG"
                                      [] fn.arg.levelno = 0 -> "NOTSET"
                                      [] OTHER -> ToString(fn.arg.levelno) >>
        /\ fn.parsed.values[3] = <<DateFormat(fn.arg.created)>>
        /\ fn.parsed.values[4] = fn.arg.msg

\* C24: run_search returns the matching documents, each once and in the
\* order the pages deliver them, whatever the size of a page; it makes one
\* scroll request for every page that held documents, the last of them
\* answered by the first empty page, and none when the first page is empty
C24_SearchReturnsAllPages ==
    fn.op = "run_search" =>
        LET n == Len(fn.arg.hits)
            size == fn.arg.size
        IN /\ fn.result.search_res = fn.arg.hits
           /\ fn.result.scrolls = (n + size - 1) \div size
           /\ n = 0 => fn.result.scrolls = 0
           /\ Page(fn.arg.hits, size, fn.result.scrolls + 1) = <<>>
           /\ \A k \in 1..fn.result.scrolls : Page(fn.arg.hits, size, k) # <<>>

\* three documents came over two pages and a third, empty one
C24_Witness ==
    /\ fn.op = "run_search"
    /\ fn.arg.size = 2
    /\ fn.arg.hits = <<1, 2, 3>>
    /\ fn.result.search_res = <<1, 2, 3>>
    /\ fn.result.scrolls = 2

\* C25: get_handler_by_name(name) returns an attached handler of that name
\* when there is one, and None when there is none
C25_HandlerByNameOrNone ==
    call.op = "get_handler_by_name" =>
        LET hs == HandlersOf(call.trace) IN
        IF call.name \in Names(hs)
        THEN \E i \in DOMAIN hs : hs[i].id = call.result /\ hs[i].name = call.name
        ELSE call.result = NoHandler

\* C26: an ElasticTraceBootStrap given a trace whose logger has a store
\* handler attached makes no connection, creates no index, and leaves the
\* handlers and their indices as they were; it raises ValueError when the
\* index name it is given is not the one of the attached handler, and
\* returns when it is
C26_BootStrapOnAttached ==
    [][/\ call'.op = "ElasticTraceBootStrap"
       /\ call'.trace # 0
       /\ contains_handler(HandlersOf(call'.trace), _ELASTIC_HANDLER_UNIQUE_NAME)
       => LET attached == CHOOSE i \in DOMAIN HandlersOf(call'.trace) :
                              HandlersOf(call'.trace)[i].name = _ELASTIC_HANDLER_UNIQUE_NAME
          IN /\ loggers' = loggers
             /\ traces' = traces
             /\ es' = es
             /\ indices' = indices
             /\ sinks' = sinks
             /\ IF HandlersOf(call'.trace)[attached].target # call'.index_name
                THEN call'.raised /\ call'.error = "ValueError"
                ELSE ~call'.raised]_vars

\* a bootstrap on a handle whose store handler writes to trace_index was
\* given another index name and raised
C26_Witness ==
    /\ call.op = "ElasticTraceBootStrap"
    /\ call.trace = 1
    /\ call.index_name = "other_index"
    /\ call.raised
    /\ call.error = "ValueError"
    /\ call.at = "index_name"
    /\ \E i \in DOMAIN HandlersOf(1) :
          /\ HandlersOf(1)[i].name = _ELASTIC_HANDLER_UNIQUE_NAME
          /\ HandlersOf(1)[i].target = InIndexName

\* the severity a handle holds as a native level: the level mapped from the
\* LogLevel it was constructed with, or the level set_log_level gave it
Severity(tr) ==
    IF tr.log_level \in LogLevels THEN LogLevelSet(tr.log_level) ELSE tr.log_level

\* C27: an enable_handler that attaches a sink leaves the sink at the
\* severity the handle holds when it is called
C27_AttachedAtTracerSeverity ==
    [][\A t \in Handles, n \in InSinkNames :
          EnableHandler(t, NewHandler(n)) /\ n \notin Names(HandlersOf(t)) =>
              HandlersAfter(t)[Len(HandlersAfter(t))].level = Severity(traces[t])]_vars

\* C28: no step changes a handler that is attached, its level included,
\* whatever the operation: a construction at another LogLevel, set_log_level,
\* new_session, an enable_handler of a name that is attached, a log.  A
\* handler that a log at an explicit level has emit the record is at or
\* below that level, so a console handler attached at ERROR emits no DEBUG
\* record after a construction at debug lowered the logger to 10.
C28_SinkLevelFixedAtAttach ==
    /\ [][\A g \in DOMAIN loggers : \A i \in DOMAIN loggers[g].handlers :
              /\ i \in DOMAIN loggers'[g].handlers
              /\ loggers'[g].handlers[i] = loggers[g].handlers[i]]_vars
    /\ [](call.op = "log" /\ call.level # NoLevel =>
              \A k \in DOMAIN emitted : \A i \in DOMAIN HandlersOf(call.trace) :
                  HandlersOf(call.trace)[i].id = emitted[k] =>
                      HandlersOf(call.trace)[i].level <= call.level)

\* Trace(error) then Trace(debug): the logger is at 10, the console handler
\* at 40, and a log at DEBUG went to no handler
C28_Witness ==
    /\ Len(traces) = 2
    /\ traces[1].log_level = error
    /\ traces[2].log_level = debug
    /\ loggers[1].level = DEBUG
    /\ loggers[1].handlers[1].name = trace_console_handler_unique_name
    /\ loggers[1].handlers[1].level = ERROR
    /\ call.op = "log"
    /\ call.level = DEBUG
    /\ emitted = <<>>

\* the position of the handler that emitted last in the last log call
LastEmitter ==
    CHOOSE k \in DOMAIN CallLogger.handlers :
        CallLogger.handlers[k].id = emitted[Len(emitted)]

\* C29 as stated: when a log raised, the store sink that raised and every
\* sink attached before it have emitted the record, in the order of
\* attachment, and no other sink has
C29_AllBeforeFailureReceived ==
    call.op = "log" /\ call.raised =>
        \E k \in DOMAIN CallLogger.handlers :
            /\ CallLogger.handlers[k].kind = "store"
            /\ emitted = Ids(SubSeq(CallLogger.handlers, 1, k))

\* C29: when a log raised, the sink that emitted last is a store sink; the
\* sinks attached before it whose level admits the record have emitted it,
\* in the order of attachment, and no sink attached after it has.  A log
\* changes no logger, and a log at a level the logger admits that follows a
\* log that raised and does not raise itself has every sink whose level
\* admits the record emit it.
C29_FanOutStopsAtFailure ==
    /\ [](call.op = "log" /\ call.raised =>
             /\ emitted # <<>>
             /\ call.level # NoLevel
             /\ CallLogger.handlers[LastEmitter].kind = "store"
             /\ emitted = Ids(Eligible(SubSeq(CallLogger.handlers, 1, LastEmitter),
                                       call.level))
             /\ \A i \in DOMAIN CallLogger.handlers :
                   i > LastEmitter =>
                       \A k \in DOMAIN emitted : emitted[k] # CallLogger.handlers[i].id)
    /\ [][call'.op = "log" => loggers' = loggers]_vars
    /\ [][/\ call.op = "log" /\ call.raised
          /\ call'.op = "log" /\ ~call'.raised
          /\ call'.level # NoLevel
          /\ call'.level >= loggers[traces[call'.trace].logger].level
          => emitted' = Ids(Eligible(loggers[traces[call'.trace].logger].handlers,
                                     call'.level))]_vars

\* a log at DEBUG raised in the store sink, attached second after a console
\* sink at ERROR that did not emit the record and before a third sink
C29_Witness ==
    /\ call.op = "log"
    /\ call.raised
    /\ call.level = DEBUG
    /\ Len(CallLogger.handlers) = 3
    /\ CallLogger.handlers[1].level = ERROR
    /\ CallLogger.handlers[2].kind = "store"
    /\ CallLogger.handlers[3].level = DEBUG
    /\ emitted = <<CallLogger.handlers[2].id>>

\* StreamHandler.emit of handler h writes to the StreamToLogger put in place
\* of sys.stdout, whose write logs each line on its logger at its level
WritesToRedirect(h) ==
    h.kind = "console" /\ h.target = "StreamToLogger"

\* the record StreamToLogger.write logs comes back to handler h of logger lgr:
\* the redirect logs on lgr, lgr is enabled for its level and h admits it
LogsBack(lgr, h) ==
    /\ WritesToRedirect(h)
    /\ stdout.redirect
    /\ loggers[stdout.logger] = lgr
    /\ isEnabledFor(lgr, stdout.level)
    /\ stdout.level >= h.level

\* C30: in every state reached by constructions, enable_handler calls and
\* the removal of handlers from the shared logger, the console sink writes to
\* the original standard output, never to the StreamToLogger redirect, so
\* emitting on it never logs back into the same logger.  The code makes the
\* console sink on sys.stdout as it is at that moment (Trace.py 181): after a
\* clean-up the next construction makes it on the redirect.
C30_ConsoleOnOriginalStdout ==
    \A i \in DOMAIN loggers : \A k \in DOMAIN loggers[i].handlers :
        /\ ~WritesToRedirect(loggers[i].handlers[k])
        /\ ~LogsBack(loggers[i], loggers[i].handlers[k])

\* a console sink, made after a clean-up, whose records come back to it
C30_ReEntry ==
    \E i \in DOMAIN loggers : \E k \in DOMAIN loggers[i].handlers :
        LogsBack(loggers[i], loggers[i].handlers[k])

====
